---- MODULE Spec2Model ----
(***************************************************************************)
(* The hierarchical component event bus of src/src/events.js: per-node      *)
(* listener registries ($on, $off) and the three propagation operations     *)
(* ($dispatch, $broadcast, $emit) over a tree of component nodes.           *)
(***************************************************************************)
EXTENDS Naturals, Integers, Sequences, FiniteSets

(***************************************************************************)
(* Bounds of the model.                                                     *)
(***************************************************************************)
\* public calls ($on, $off, $dispatch, ...) made by one run of SpecReg
MaxRegOps == 4
\* $on/$off calls made by one run of Spec
MaxOps == 3
\* those of them made from listener bodies
MaxReentrant == 1

(***************************************************************************)
(* Values handed to the public operations.  JavaScript is untyped, so $on   *)
(* and $off can be given anything; TypeOf is the typeof operator on the     *)
(* values the model draws from.                                             *)
(***************************************************************************)
EventNames == {"x", "y"}
Functions == {"f1", "f2", "f3"}
\* what the model passes as the event and as the listener of $on and $off
EventInputs == EventNames \cup {"num42"}
ListenerInputs == Functions \cup {"undef"}
\* the listener functions the full specification registers
Listeners == {"f1", "f2"}
\* the event the traversals are started with: $on and $off treat all event
\* names alike, so every run that propagates "y" mirrors one that propagates "x"
TraversalEvents == {"x"}
\* the argument lists a traversal is started with
ArgLists == {"a1", "a2"}

TypeOf(v) ==
    IF v \in EventNames THEN "string"
    ELSE IF v \in Functions THEN "function"
    ELSE IF v = "num42" THEN "number"
    ELSE "undefined"

(***************************************************************************)
(* The component node tree.  Node 1 is the root with children [2, 3]; node  *)
(* 2 has the child 4.  0 stands for the undefined _parent of the root.      *)
(***************************************************************************)
Nodes == {1, 2, 3, 4}
NoNode == 0
TreeParent == <<0, 1, 1, 2>>
TreeChildren == << <<2, 3>>, <<4>>, <<>>, <<>> >>

VARIABLES
    _events,    \* _events[n]: node n's registry; obj = FALSE while n._events is undefined
    _parent,    \* _parent[n]: node n's parent, NoNode for the root
    _children,  \* _children[n]: node n's children, in order
    error,      \* "none", or the error the public call raises to its caller
    last,       \* the public call being run: [op, node, event, arg], and the
                \* listener list it found on its node for its event (before)
    ops,        \* number of $on/$off calls made so far
    pc,         \* "idle", or where the public call is: "dispatch", "broadcast", "done"
    cur,        \* dispatch: curComponentNode (NoNode once past the root)
    idx,        \* dispatch: the loop index i into cur's listeners
    stack,      \* broadcase: the active calls, innermost last: [node, child, i]
    log,        \* the listener invocations of the running traversal, in order
    reent,      \* number of $on/$off calls made from listener bodies so far
    dirty,      \* a listener of the running traversal has called $on or $off
    prev        \* SpecReg only: the public call that returned before the running one

vars == <<_events, _parent, _children, error, last, ops,
          pc, cur, idx, stack, log, reent, dirty, prev>>

\* no public call is being run
NoCall == [op |-> "none", node |-> NoNode, event |-> "undef", arg |-> "undef",
           before |-> <<>>]

\* an object with no keys ({} at line 9), and the state of a node without _events
EmptyTab == [e \in {} |-> <<>>]
NoEvents == [obj |-> FALSE, tab |-> EmptyTab]

\* componentNode?._events?.[event] is defined
HasList(n, event) == _events[n].obj /\ event \in DOMAIN _events[n].tab

\* componentNode?._events?.[event], with <<>> standing in where it is undefined
ListOf(n, event) == IF HasList(n, event) THEN _events[n].tab[event] ELSE <<>>

\* Array.prototype.findIndex with an identity test: 0-based index, -1 if absent
FindIndex(listeners, eventListener) ==
    IF \E i \in 1..Len(listeners) : listeners[i] = eventListener
    THEN (CHOOSE i \in 1..Len(listeners) :
             /\ listeners[i] = eventListener
             /\ \A j \in 1..(i - 1) : listeners[j] # eventListener) - 1
    ELSE -1

\* Array.prototype.splice(start, deleteCount) with no inserted items: a
\* negative start counts from the end of the array
Splice(listeners, start, deleteCount) ==
    LET len == Len(listeners)
        from == IF start < 0
                THEN (IF len + start < 0 THEN 0 ELSE len + start)
                ELSE (IF start > len THEN len ELSE start)
        cnt == IF deleteCount > len - from THEN len - from ELSE deleteCount
    IN  SubSeq(listeners, 1, from) \o SubSeq(listeners, from + cnt + 1, len)

\* a mutant of Pushed: the listener is appended without the identity test
PushedAlways(listeners, eventListener) == Append(listeners, eventListener)

\* lines 17-18 of on: push the listener unless find() returns it
Pushed(listeners, eventListener) ==
    IF \E i \in 1..Len(listeners) : listeners[i] = eventListener
    THEN listeners
    ELSE Append(listeners, eventListener)

\* a mutant of OnThrows: the listener's type is not validated
OnThrowsEventOnly(event, eventListener) == TypeOf(event) # "string"

\* line 4 of on: the guard of the TypeError
OnThrows(event, eventListener) ==
    TypeOf(event) # "string" \/ TypeOf(eventListener) # "function"

\* the registry of node n after lines 8-18 of on(event, eventListener)
OnRegistry(n, event, eventListener) ==
    LET tab0 == IF _events[n].obj THEN _events[n].tab ELSE EmptyTab
        listeners == IF event \in DOMAIN tab0 THEN tab0[event] ELSE <<>>
    IN  [obj |-> TRUE,
         tab |-> [e \in DOMAIN tab0 \cup {event} |->
                    IF e = event THEN Pushed(listeners, eventListener)
                    ELSE tab0[e]]]

\* a mutant of OnEffect: one registry shared by all nodes
OnEffectGlobal(n, event, eventListener) ==
    IF OnThrows(event, eventListener)
    THEN _events
    ELSE [m \in Nodes |-> OnRegistry(m, event, eventListener)]

\* the state change of componentNode.$on(event, eventListener) on node n
OnEffect(n, event, eventListener) ==
    IF OnThrows(event, eventListener)
    THEN _events
    ELSE [_events EXCEPT ![n] = OnRegistry(n, event, eventListener)]

\* line 24 of off raises a TypeError: listeners is undefined
OffThrows(n, event) == ~HasList(n, event)

\* a mutant of OffList: slice instead of splice, the list is not changed
OffListSlice(listeners, eventListener) == listeners

\* a mutant of OffList: splice(index) without a count removes the rest too
OffListRest(listeners, eventListener) ==
    Splice(listeners, FindIndex(listeners, eventListener), Len(listeners))

\* a mutant of OffList: the index is off by one
OffListBefore(listeners, eventListener) ==
    Splice(listeners, FindIndex(listeners, eventListener) - 1, 1)

\* lines 23-24 of off: the listener list after splice(findIndex(...), 1)
OffList(listeners, eventListener) ==
    Splice(listeners, FindIndex(listeners, eventListener), 1)

\* the state change of componentNode.$off(event, eventListener) on node n
OffEffect(n, event, eventListener) ==
    IF OffThrows(n, event)
    THEN _events
    ELSE [_events EXCEPT ![n].tab[event] =
              OffList(_events[n].tab[event], eventListener)]

\* componentNode.$on(event, eventListener) called by the application
On(n, event, eventListener) ==
    /\ pc = "idle"
    /\ _events' = OnEffect(n, event, eventListener)
    /\ error' = IF OnThrows(event, eventListener) THEN "TypeError" ELSE "none"
    /\ last' = [op |-> "on", node |-> n, event |-> event, arg |-> eventListener,
                before |-> ListOf(n, event)]
    /\ ops' = ops + 1
    /\ pc' = "done"
    /\ UNCHANGED <<_parent, _children, cur, idx, stack, log, reent, dirty>>

\* componentNode.$off(event, eventListener) called by the application
Off(n, event, eventListener) ==
    /\ pc = "idle"
    /\ _events' = OffEffect(n, event, eventListener)
    /\ error' = IF OffThrows(n, event) THEN "TypeError" ELSE "none"
    /\ last' = [op |-> "off", node |-> n, event |-> event, arg |-> eventListener,
                before |-> ListOf(n, event)]
    /\ ops' = ops + 1
    /\ pc' = "done"
    /\ UNCHANGED <<_parent, _children, cur, idx, stack, log, reent, dirty>>

(***************************************************************************)
(* Listener invocation.  A listener is an arbitrary JavaScript function:    *)
(* what it returns is chosen freely at each invocation, and its body may    *)
(* call $on or $off on any node before it returns.                          *)
(***************************************************************************)
NoEffect == [op |-> "none", node |-> NoNode, event |-> "undef", fn |-> "undef"]

\* what the body of an invoked listener may do to the registries: nothing,
\* or one $on or $off call, on any node, for the event being propagated
Effects ==
    {NoEffect} \cup
    (IF reent < MaxReentrant /\ ops < MaxOps
     THEN [op : {"on", "off"}, node : Nodes, event : {last.event}, fn : Listeners]
     ELSE {})

\* the $off call made by the listener body raises (line 24), and the
\* exception leaves the listener and the traversal that invoked it
EffectThrows(eff) == eff.op = "off" /\ OffThrows(eff.node, eff.event)

\* the registries after the listener body has run
EffectRegistry(eff) ==
    IF eff.op = "on" THEN OnEffect(eff.node, eff.event, eff.fn)
    ELSE IF eff.op = "off" THEN OffEffect(eff.node, eff.event, eff.fn)
    ELSE _events

\* lines 48 and 84: the listener is called with the spread args
PassedArgs(args) == args

\* the record of one listener invocation: where, which listener, with what
\* arguments, what it returned and what its body did to the registries
Invocation(n, fn, ret, eff, pass) ==
    [node |-> n, fn |-> fn, args |-> PassedArgs(last.arg), ret |-> ret,
     pass |-> pass, eff |-> eff]

\* what every listener invocation does besides moving the traversal on
Invoke(n, fn, ret, eff, pass) ==
    /\ EffectThrows(eff) => ~ret
    /\ log' = Append(log, Invocation(n, fn, ret, eff, pass))
    /\ _events' = EffectRegistry(eff)
    /\ reent' = IF eff.op = "none" THEN reent ELSE reent + 1
    /\ dirty' = (dirty \/ eff.op # "none")
    /\ ops' = IF eff.op = "none" THEN ops ELSE ops + 1
    /\ error' = IF EffectThrows(eff) THEN "TypeError" ELSE error
    /\ UNCHANGED <<_parent, _children, last, prev>>

(***************************************************************************)
(* dispatch (lines 43-53) and $dispatch (lines 57-59)                       *)
(***************************************************************************)
\* a mutant of DispatchFrom: the upward walk starts at the parent
DispatchFromParent(n) == _parent[n]

\* line 58: $dispatch starts the upward walk at the node itself
DispatchFrom(n) == n

\* line 105: $emit starts its upward walk at the node itself
EmitDispatchFrom(n) == n

\* a mutant of DispatchStops: the result of the listener is ignored
DispatchNeverStops(ret) == FALSE

\* line 48: a truthy result returns from dispatch
DispatchStops(ret) == ret

\* a mutant of DispatchUp: the walk ends at a node without listeners
DispatchUpListening(n) ==
    IF ListOf(n, last.event) = <<>> THEN NoNode ELSE _parent[n]

\* a mutant of DispatchUp: the upward walk of $emit ends after one node
DispatchUpOnce(n) == IF last.op = "emit" THEN NoNode ELSE _parent[n]

\* a mutant of DispatchUp: curComponentNode is not moved to the parent
DispatchStay(n) == n

\* line 51: the walk continues at the parent
DispatchUp(n) == _parent[n]

\* the first call frame of broadcase(n, ...)
Frame(n) == [node |-> n, child |-> 1, i |-> 0]

\* componentNode.$dispatch(event, ...args) called by the application
Dispatch(n, event, args) ==
    /\ pc = "idle"
    /\ pc' = "dispatch"
    /\ cur' = DispatchFrom(n)
    /\ idx' = 0
    /\ last' = [op |-> "dispatch", node |-> n, event |-> event, arg |-> args,
                before |-> ListOf(n, event)]
    /\ error' = "none"
    /\ UNCHANGED <<_events, _parent, _children, ops, stack, log, reent, dirty, prev>>

\* a mutant of DispatchReturned: $emit skips broadcase when a listener
\* stopped the upward walk
DispatchReturnedJoint(stopped) ==
    /\ cur' = NoNode
    /\ idx' = 0
    /\ IF last.op = "emit" /\ ~stopped
       THEN pc' = "broadcast" /\ stack' = <<Frame(last.node)>>
       ELSE pc' = "done" /\ stack' = stack

\* dispatch has returned, stopped by a truthy result (line 48) or past the
\* root (line 44): $dispatch is done (line 59), $emit goes on to line 106
DispatchReturned(stopped) ==
    /\ cur' = NoNode
    /\ idx' = 0
    /\ IF last.op = "emit"
       THEN pc' = "broadcast" /\ stack' = <<Frame(last.node)>>
       ELSE pc' = "done" /\ stack' = stack

\* line 48: the next listener of the current node is called
DispatchInvoke ==
    /\ pc = "dispatch"
    /\ cur # NoNode
    /\ idx < Len(ListOf(cur, last.event))
    /\ \E ret \in BOOLEAN, eff \in Effects :
          /\ Invoke(cur, ListOf(cur, last.event)[idx + 1], ret, eff, "up")
          /\ IF EffectThrows(eff)
             THEN pc' = "done" /\ cur' = NoNode /\ idx' = 0 /\ stack' = stack
             ELSE IF DispatchStops(ret)
             THEN DispatchReturned(TRUE)
             ELSE pc' = pc /\ cur' = cur /\ idx' = idx + 1 /\ stack' = stack

\* lines 46-51: no listener is left on the current node
DispatchParent ==
    /\ pc = "dispatch"
    /\ cur # NoNode
    /\ idx >= Len(ListOf(cur, last.event))
    /\ cur' = DispatchUp(cur)
    /\ idx' = 0
    /\ UNCHANGED <<_events, _parent, _children, error, last, ops,
                   pc, stack, log, reent, dirty, prev>>

\* line 44: curComponentNode is undefined, the loop ends
DispatchEnd ==
    /\ pc = "dispatch"
    /\ cur = NoNode
    /\ DispatchReturned(FALSE)
    /\ UNCHANGED <<_events, _parent, _children, error, last, ops, log, reent, dirty,
                   prev>>

(***************************************************************************)
(* broadcase (lines 77-91) and $broadcast (lines 95-97)                     *)
(***************************************************************************)
\* line 85: a truthy result returns from the running call of broadcase
BroadcastStops(ret) == ret

\* the call stack after the innermost call of broadcase has returned: its
\* caller (line 88) goes on to its next child
Returned(st) ==
    IF Len(st) <= 1
    THEN <<>>
    ELSE LET rest == SubSeq(st, 1, Len(st) - 1)
             caller == rest[Len(rest)]
         IN  [rest EXCEPT ![Len(rest)] =
                 [node |-> caller.node, child |-> caller.child + 1, i |-> 0]]

\* the innermost call of broadcase and the child its loop is at
Top == stack[Len(stack)]
InLoop == Top.child <= Len(_children[Top.node])

\* a mutant of Child: the children are taken last first
ChildReversed == _children[Top.node][Len(_children[Top.node]) + 1 - Top.child]

\* line 80: the children are taken in _children order
Child == _children[Top.node][Top.child]

\* componentNode.$broadcast(event, ...args) called by the application
Broadcast(n, event, args) ==
    /\ pc = "idle"
    /\ pc' = "broadcast"
    /\ stack' = <<Frame(n)>>
    /\ last' = [op |-> "broadcast", node |-> n, event |-> event, arg |-> args,
                before |-> ListOf(n, event)]
    /\ error' = "none"
    /\ UNCHANGED <<_events, _parent, _children, ops, cur, idx, log, reent, dirty, prev>>

\* line 84: the next listener of the current child is called
BroadcastInvoke ==
    /\ pc = "broadcast"
    /\ stack # <<>>
    /\ InLoop
    /\ Top.i < Len(ListOf(Child, last.event))
    /\ \E ret \in BOOLEAN, eff \in Effects :
          /\ Invoke(Child, ListOf(Child, last.event)[Top.i + 1], ret, eff, "down")
          /\ IF EffectThrows(eff)
             THEN pc' = "done" /\ stack' = <<>>
             ELSE IF BroadcastStops(ret)
             THEN /\ stack' = Returned(stack)
                  /\ pc' = IF Returned(stack) = <<>> THEN "done" ELSE pc
             ELSE /\ stack' = [stack EXCEPT ![Len(stack)].i = Top.i + 1]
                  /\ pc' = pc
          /\ UNCHANGED <<cur, idx>>

\* a mutant of BroadcastRecurse: the child is given a registry on the way
BroadcastRecurseInit ==
    /\ pc = "broadcast"
    /\ stack # <<>>
    /\ InLoop
    /\ Top.i >= Len(ListOf(Child, last.event))
    /\ stack' = Append(stack, Frame(Child))
    /\ _events' = [_events EXCEPT ![Child].obj = TRUE]
    /\ UNCHANGED <<_parent, _children, error, last, ops,
                   pc, cur, idx, log, reent, dirty, prev>>

\* line 88: the child's listeners are done, broadcase is called on the child
BroadcastRecurse ==
    /\ pc = "broadcast"
    /\ stack # <<>>
    /\ InLoop
    /\ Top.i >= Len(ListOf(Child, last.event))
    /\ stack' = Append(stack, Frame(Child))
    /\ UNCHANGED <<_events, _parent, _children, error, last, ops,
                   pc, cur, idx, log, reent, dirty, prev>>

\* lines 79-91: no child is left, the running call of broadcase returns
BroadcastReturn ==
    /\ pc = "broadcast"
    /\ stack # <<>>
    /\ ~InLoop
    /\ stack' = Returned(stack)
    /\ pc' = IF Returned(stack) = <<>> THEN "done" ELSE pc
    /\ UNCHANGED <<_events, _parent, _children, error, last, ops,
                   cur, idx, log, reent, dirty, prev>>

(***************************************************************************)
(* $emit (lines 104-107): dispatch, then broadcase                          *)
(***************************************************************************)
\* componentNode.$emit(event, ...args) called by the application
Emit(n, event, args) ==
    /\ pc = "idle"
    /\ pc' = "dispatch"
    /\ cur' = EmitDispatchFrom(n)
    /\ idx' = 0
    /\ last' = [op |-> "emit", node |-> n, event |-> event, arg |-> args,
                before |-> ListOf(n, event)]
    /\ error' = "none"
    /\ UNCHANGED <<_events, _parent, _children, ops, stack, log, reent, dirty, prev>>

\* the public call has returned to the application
Done ==
    /\ pc = "done"
    /\ pc' = "idle"
    /\ last' = NoCall
    /\ error' = "none"
    /\ log' = <<>>
    /\ dirty' = FALSE
    /\ UNCHANGED <<_events, _parent, _children, ops, cur, idx, stack, reent>>

Init ==
    /\ _events = [n \in Nodes |-> NoEvents]
    /\ _parent = [n \in Nodes |-> TreeParent[n]]
    /\ _children = [n \in Nodes |-> TreeChildren[n]]
    /\ error = "none"
    /\ last = NoCall
    /\ ops = 0
    /\ pc = "idle"
    /\ cur = NoNode
    /\ idx = 0
    /\ stack = <<>>
    /\ log = <<>>
    /\ reent = 0
    /\ dirty = FALSE
    /\ prev = NoCall

\* the nodes the registry specification calls $on and $off on
RegNodes == {1, 2}

RegOn ==
    /\ ops < MaxRegOps
    /\ \E n \in RegNodes, event \in EventInputs, eventListener \in ListenerInputs :
           On(n, event, eventListener)
    /\ UNCHANGED prev

RegOff ==
    /\ ops < MaxRegOps
    /\ \E n \in RegNodes, event \in EventInputs, eventListener \in ListenerInputs :
           Off(n, event, eventListener)
    /\ UNCHANGED prev

\* the call has returned; the registry specification remembers it
RegDone == Done /\ prev' = last

NextReg == RegOn \/ RegOff \/ RegDone

\* the registry operations alone, with three listener functions
SpecReg == Init /\ [][NextReg]_vars

CallOn ==
    /\ ops < MaxOps
    /\ \E n \in Nodes, event \in EventInputs, eventListener \in Listeners \cup {"undef"} :
           On(n, event, eventListener)
    /\ UNCHANGED prev

CallOff ==
    /\ ops < MaxOps
    /\ \E n \in Nodes, event \in EventInputs, eventListener \in Listeners \cup {"undef"} :
           Off(n, event, eventListener)
    /\ UNCHANGED prev

CallDispatch ==
    \E n \in Nodes, event \in TraversalEvents, args \in ArgLists : Dispatch(n, event, args)

CallBroadcast ==
    \E n \in Nodes, event \in TraversalEvents, args \in ArgLists : Broadcast(n, event, args)

CallEmit ==
    \E n \in Nodes, event \in TraversalEvents, args \in ArgLists : Emit(n, event, args)

\* the call has returned to the application
Return == Done /\ UNCHANGED prev

Next ==
    \/ CallOn
    \/ CallOff
    \/ CallDispatch
    \/ CallBroadcast
    \/ CallEmit
    \/ DispatchInvoke
    \/ DispatchParent
    \/ DispatchEnd
    \/ BroadcastInvoke
    \/ BroadcastRecurse
    \/ BroadcastReturn
    \/ Return

\* the event bus: registrations, traversals and re-entrant listeners
Spec == Init /\ [][Next]_vars

(***************************************************************************)
(* Properties.  The definitions below describe expected results; they are   *)
(* not part of the program.                                                 *)
(***************************************************************************)
\* the members of a listener list
Members(listeners) == {listeners[k] : k \in 1..Len(listeners)}

\* a truthy result occurs only in the last entry of a run of invocations
OnlyLastTruthy(entries) == \A k \in 1..(Len(entries) - 1) : ~entries[k].ret

\* no invocation in the run returned a truthy result
NoTruthy(entries) == \A k \in 1..Len(entries) : ~entries[k].ret

\* the invocations of one pass ("up" or "down") of the running call, in order
RECURSIVE PassOf(_, _)
PassOf(entries, pass) ==
    IF entries = <<>> THEN <<>>
    ELSE IF Head(entries).pass = pass
         THEN <<Head(entries)>> \o PassOf(Tail(entries), pass)
         ELSE PassOf(Tail(entries), pass)

\* C1: in a $broadcast, once any listener on any descendant has returned a
\* truthy value, no further listener is invoked: a truthy result can only be
\* the last invocation of the broadcast.  Stated for the broadcasts whose
\* listeners leave the registries alone, which is the case
\* of the example P with children [X, Y], X with child X1.
C1_BroadcastStopsEntirely ==
    (last.op = "broadcast" /\ ~dirty) => OnlyLastTruthy(log)

\* C2: $off(E, L) on a node whose list for E exists and does not contain L
\* leaves that list as it was.
C2_OffAbsentListenerNoOp ==
    [][\A n \in Nodes, event \in EventInputs, eventListener \in ListenerInputs :
          (/\ HasList(n, event)
           /\ eventListener \notin Members(ListOf(n, event))
           /\ Off(n, event, eventListener))
          => _events'[n].tab[event] = _events[n].tab[event]]_vars

\* C3: $off(E, L) on a node with no registry, or with no entry for E, raises
\* nothing and leaves the registries unchanged.
C3_OffWithoutEntryIsSilent ==
    [][\A n \in Nodes, event \in EventInputs, eventListener \in ListenerInputs :
          (~HasList(n, event) /\ Off(n, event, eventListener))
          => (error' = "none" /\ _events' = _events)]_vars

\* C4: in a $dispatch, a truthy result stops the propagation at once: the
\* call is over, and the truthy invocation is the last one, so no later
\* listener of the same node and no listener of an ancestor is invoked.
C4_DispatchShortCircuit ==
    last.op = "dispatch" =>
        /\ OnlyLastTruthy(log)
        /\ (~NoTruthy(log) => pc = "done")

\* C4's case: dispatch from node 4 (chain 1 -> 2 -> 4), the listener of node 2
\* returned truthy, node 1 has a listener for the event and it was not invoked
C4_Witness ==
    /\ pc = "done"
    /\ last.op = "dispatch"
    /\ last.node = 4
    /\ ~dirty
    /\ log # <<>>
    /\ log[Len(log)].node = 2
    /\ log[Len(log)].ret
    /\ ListOf(1, last.event) # <<>>
    /\ \A k \in 1..Len(log) : log[k].node # 1

\* the nodes from n up to the root, nearest first
RECURSIVE PathUp(_)
PathUp(n) == IF n = NoNode THEN <<>> ELSE <<n>> \o PathUp(_parent[n])

\* the nodes of the subtrees rooted at the nodes of kids, in pre-order
RECURSIVE PreOrder(_)
PreOrder(kids) ==
    IF kids = <<>> THEN <<>>
    ELSE <<Head(kids)>> \o PreOrder(_children[Head(kids)]) \o PreOrder(Tail(kids))

\* the proper descendants of n, in pre-order
Descendants(n) == PreOrder(_children[n])

\* the invocations that register the listeners of the nodes of ns for the
\* event, node by node, each node's listeners in list order, none truthy
RECURSIVE Expected(_, _, _, _)
Expected(ns, event, args, pass) ==
    IF ns = <<>> THEN <<>>
    ELSE [k \in 1..Len(ListOf(Head(ns), event)) |->
             [node |-> Head(ns), fn |-> ListOf(Head(ns), event)[k],
              args |-> args, ret |-> FALSE, pass |-> pass, eff |-> NoEffect]]
         \o Expected(Tail(ns), event, args, pass)

\* C5: a $dispatch in which no listener returns truthy (and none changes a
\* registry) invokes exactly the listeners of the start node, then of its
\* parent, and so on up to the root, each node's listeners in registration
\* order, each once, each with the dispatched args.
C5_DispatchOrder ==
    (pc = "done" /\ last.op = "dispatch" /\ ~dirty /\ NoTruthy(log)) =>
        log = Expected(PathUp(last.node), last.event, last.arg, "up")

\* C5's case: a finished dispatch from node 4 that invoked two listeners of
\* node 4 and then one of an ancestor
C5_Witness ==
    /\ pc = "done"
    /\ last.op = "dispatch"
    /\ last.node = 4
    /\ ~dirty
    /\ NoTruthy(log)
    /\ Len(log) = 3
    /\ log[1].node = 4
    /\ log[2].node = 4
    /\ log[3].node \in {1, 2}

\* C6: a $broadcast in which no listener returns truthy (and none changes a
\* registry) invokes exactly the listeners of the proper descendants of the
\* start node, in pre-order, each node's listeners in registration order.
C6_BroadcastOrder ==
    (pc = "done" /\ last.op = "broadcast" /\ ~dirty /\ NoTruthy(log)) =>
        log = Expected(Descendants(last.node), last.event, last.arg, "down")

\* C6's case: a finished broadcast from node 1 (children [2, 3], 2 with child
\* 4) that invoked a listener of 2, then of 4, then of 3
C6_Witness ==
    /\ pc = "done"
    /\ last.op = "broadcast"
    /\ last.node = 1
    /\ ~dirty
    /\ Len(log) = 3
    /\ log[1].node = 2
    /\ log[2].node = 4
    /\ log[3].node = 3

\* C7: the upward pass of $emit on node N starts at N's parent: N's own
\* listeners are not invoked by $emit.
C7_EmitSkipsOwnListeners ==
    last.op = "emit" => \A k \in 1..Len(log) : log[k].node # last.node

\* C8: the two passes of $emit are short-circuited independently: a truthy
\* result in the upward pass ends the upward pass only, and the downward
\* pass then runs over all the descendants unless one of its own listeners
\* returns truthy.
C8_EmitPassesIndependent ==
    (pc = "done" /\ last.op = "emit" /\ ~dirty) =>
        /\ OnlyLastTruthy(PassOf(log, "up"))
        /\ NoTruthy(PassOf(log, "down")) =>
               PassOf(log, "down") =
                   Expected(Descendants(last.node), last.event, last.arg, "down")

\* C8's case: $emit on node 2; the listener of its parent 1 returned truthy
\* and the listener of its child 4 was invoked all the same
C8_Witness ==
    /\ pc = "done"
    /\ last.op = "emit"
    /\ last.node = 2
    /\ ~dirty
    /\ \E k \in 1..Len(log) : log[k].node = 1 /\ log[k].pass = "up" /\ log[k].ret
    /\ \E k \in 1..Len(log) : log[k].node = 4 /\ log[k].pass = "down"

\* C9: $on with a non-string event or a non-function listener raises a
\* TypeError to its caller and leaves every registry as it was.
C9_InvalidOnRaises ==
    [][\A n \in Nodes, event \in EventInputs, eventListener \in ListenerInputs :
          (/\ TypeOf(event) # "string" \/ TypeOf(eventListener) # "function"
           /\ On(n, event, eventListener))
          => (error' = "TypeError" /\ _events' = _events)]_vars

\* C9's case: $on was called with a listener that is no function, on a node
\* that has a registry already, and raised
C9_Witness ==
    /\ pc = "done"
    /\ last.op = "on"
    /\ TypeOf(last.event) = "string"
    /\ TypeOf(last.arg) # "function"
    /\ error = "TypeError"
    /\ ListOf(last.node, last.event) # <<>>

\* no listener list holds a listener twice
NoDuplicates ==
    \A n \in Nodes : \A event \in DOMAIN _events[n].tab :
        \A j, k \in 1..Len(_events[n].tab[event]) :
            _events[n].tab[event][j] = _events[n].tab[event][k] => j = k

\* a valid $on(E, L) appends L to the list for E if L is not in it, and
\* leaves the list as it is if L is in it
OnAppendsIffAbsent ==
    \A n \in Nodes, event \in EventNames, eventListener \in Functions :
        On(n, event, eventListener) =>
            _events'[n].tab[event] =
                IF eventListener \in Members(ListOf(n, event))
                THEN ListOf(n, event)
                ELSE Append(ListOf(n, event), eventListener)

\* in a pass whose listeners leave the registries alone, no listener of a
\* node is invoked twice
InvokedOnce ==
    ~dirty => \A j, k \in 1..Len(log) :
        (log[j].node = log[k].node /\ log[j].fn = log[k].fn
            /\ log[j].pass = log[k].pass) => j = k

\* C10: after any sequence of $on and $off calls no listener list holds a
\* listener twice; a valid $on(E, L) appends L at the end of the list iff L
\* is not in it; a listener registered twice is invoked once per pass.
C10_DuplicatesSuppressed ==
    /\ []NoDuplicates
    /\ [][OnAppendsIffAbsent]_vars
    /\ []InvokedOnce

\* C10's case: $on was called with a listener that the list of two held
\* already, in front of another one
C10_Witness ==
    /\ pc = "done"
    /\ last.op = "on"
    /\ error = "none"
    /\ Len(ListOf(last.node, last.event)) = 2
    /\ ListOf(last.node, last.event)[1] = last.arg

\* the listener fn of node n is invoked by one of the entries lo..hi of the log
InvokedIn(n, fn, lo, hi) ==
    \E k \in lo..hi : log[k].node = n /\ log[k].fn = fn

\* the body of the k-th invoked listener called $off(event, fn) on node n
CalledOff(k, n, fn) ==
    /\ log[k].eff.op = "off"
    /\ log[k].eff.node = n
    /\ log[k].eff.event = last.event
    /\ log[k].eff.fn = fn

\* the body of one of the invoked listeners lo..hi called $on(event, fn) on node n
ReRegistered(n, fn, lo, hi) ==
    \E k \in lo..hi :
        /\ log[k].eff.op = "on"
        /\ log[k].eff.node = n
        /\ log[k].eff.fn = fn

\* C11: when a listener body calls $off(E, L) on node N during a traversal of
\* E that has not invoked L on N yet, L on N is not invoked by any later step
\* of that traversal (unless a listener body registers it again).
C11_RemovalTakesEffect ==
    \A k \in 1..Len(log) : \A n \in Nodes : \A fn \in Listeners :
        (CalledOff(k, n, fn) /\ ~InvokedIn(n, fn, 1, k)) =>
            \A j \in (k + 1)..Len(log) :
                (log[j].node = n /\ log[j].fn = fn) => ReRegistered(n, fn, k, j - 1)

\* C11's case: node 4 held [f1, f2]; f1, invoked first by a dispatch from 4,
\* called $off for f2 on node 4, and the dispatch ended without invoking f2
C11_Witness ==
    /\ pc = "done"
    /\ last.op = "dispatch"
    /\ last.node = 4
    /\ last.before = <<"f1", "f2">>
    /\ error = "none"
    /\ Len(log) = 1
    /\ log[1].fn = "f1"
    /\ ~log[1].ret
    /\ CalledOff(1, 4, "f2")
    /\ ListOf(4, last.event) = <<"f1">>
    /\ ListOf(2, last.event) = <<>>
    /\ ListOf(1, last.event) = <<>>

\* a step leaves alone the registries of the nodes other than n, the lists of
\* n for the events other than event, and every _parent and _children link
OnlyTouches(n, event) ==
    /\ \A m \in Nodes \ {n} : _events'[m] = _events[m]
    /\ \A e \in EventInputs \ {event} :
          /\ HasList(n, e)' = HasList(n, e)
          /\ ListOf(n, e)' = ListOf(n, e)
    /\ _parent' = _parent
    /\ _children' = _children

\* the nodes a pass of the running traversal visits
Visited(pass) ==
    IF pass = "up" THEN Members(PathUp(last.node))
    ELSE Members(Descendants(last.node))

\* the step is a public $on or $off call
IsOnOffCall == pc = "idle" /\ last'.op \in {"on", "off"}

\* the step is the invocation of a listener
IsInvocation == Len(log') = Len(log) + 1

\* C12: $on and $off on node N, called by the application or by a listener
\* body, change nothing but N's list for the given event: the other nodes'
\* registries, N's other lists and the tree links stay as they are.  Every
\* invoked listener is taken from the registry of the node being visited,
\* and that node is on the path (upward) or in the subtree (downward) of the
\* traversal.
C12_OnOffFrame ==
    [][/\ \A n \in Nodes, event \in EventInputs :
             (IsOnOffCall /\ last'.node = n /\ last'.event = event)
                 => OnlyTouches(n, event)
       /\ IsInvocation =>
             LET inv == log'[Len(log')]
             IN  /\ \A n \in Nodes, event \in EventInputs :
                       (inv.eff.op # "none" /\ inv.eff.node = n /\ inv.eff.event = event)
                           => OnlyTouches(n, event)
                 /\ inv.node \in Visited(inv.pass)
                 /\ inv.fn \in Members(ListOf(inv.node, last.event))]_vars

\* C12's case: $on has just added a listener for y to node 1, whose list for
\* x and node 2's list for x hold their listeners as before
C12_Witness ==
    /\ pc = "done"
    /\ last.op = "on"
    /\ last.node = 1
    /\ last.event = "y"
    /\ error = "none"
    /\ ListOf(1, "y") = <<"f2">>
    /\ ListOf(1, "x") = <<"f1">>
    /\ ListOf(2, "x") = <<"f1">>
    /\ ~_events[3].obj
    /\ ~_events[4].obj

\* the nodes the running $dispatch or $broadcast visits when nothing stops it
VisitedNodes ==
    IF last.op = "dispatch" THEN Members(PathUp(last.node))
    ELSE Members(Descendants(last.node))

\* the number of invocations of listener fn of node n in the running call
TimesInvoked(n, fn) ==
    Cardinality({k \in 1..Len(log) : log[k].node = n /\ log[k].fn = fn})

\* no listener body of the running call has registered a listener
NoneRegistered == \A k \in 1..Len(log) : log[k].eff.op # "on"

\* C13: a $dispatch or $broadcast in which no listener returns truthy (and
\* none raises or registers a listener) has invoked, when it returns, every
\* listener that is still in the list of a visited node exactly once, also
\* when listener bodies have removed listeners with $off on the way.
C13_NoListenerSkipped ==
    (/\ pc = "done"
     /\ last.op \in {"dispatch", "broadcast"}
     /\ error = "none"
     /\ NoTruthy(log)
     /\ NoneRegistered)
        => \A n \in VisitedNodes : \A fn \in Members(ListOf(n, last.event)) :
               TimesInvoked(n, fn) = 1

\* the listeners of a list of length len the loop at index i has yet to call
Left(len, i) == IF i < len THEN len - i ELSE 0

\* the steps an upward walk takes from node n on: one per listener, one to
\* leave each node, one to leave the loop past the root
RECURSIVE UpSteps(_)
UpSteps(n) ==
    IF n = NoNode THEN 1
    ELSE Len(ListOf(n, last.event)) + 1 + UpSteps(_parent[n])

\* the steps broadcase takes for the children kids of a node: for each child
\* one per listener, one to call broadcase on it, and that call's steps
RECURSIVE KidsSteps(_)
KidsSteps(kids) ==
    IF kids = <<>> THEN 0
    ELSE Len(ListOf(Head(kids), last.event)) + 1
         + (KidsSteps(_children[Head(kids)]) + 1)
         + KidsSteps(Tail(kids))

\* the steps of a call of broadcase on node n, its return included
DownSteps(n) == KidsSteps(_children[n]) + 1

\* the steps the k-th active call of broadcase has yet to take itself
FrameSteps(k) ==
    LET f == stack[k]
        kids == _children[f.node]
        later == KidsSteps(SubSeq(kids, f.child + 1, Len(kids))) + 1
    IN  IF k < Len(stack) THEN later
        ELSE IF f.child > Len(kids) THEN 1
        ELSE Left(Len(ListOf(kids[f.child], last.event)), f.i) + 1
             + DownSteps(kids[f.child]) + later

RECURSIVE StackSteps(_)
StackSteps(k) == IF k = 0 THEN 0 ELSE FrameSteps(k) + StackSteps(k - 1)

\* a bound on the steps the running traversal has yet to take, computed from
\* the lists as they are now
Measure ==
    IF pc = "dispatch"
    THEN (IF cur = NoNode THEN 1
          ELSE Left(Len(ListOf(cur, last.event)), idx) + 1 + UpSteps(_parent[cur]))
         + (IF last.op = "emit" THEN DownSteps(last.node) ELSE 0)
    ELSE IF pc = "broadcast" THEN StackSteps(Len(stack))
    ELSE 0

\* no listener of a node is invoked twice in a pass
OncePerPass ==
    \A j, k \in 1..Len(log) :
        (log[j].node = log[k].node /\ log[j].fn = log[k].fn
            /\ log[j].pass = log[k].pass) => j = k

\* a pass comes to a node once: the invocations on a node are not
\* interrupted by invocations on another node
VisitedOnce ==
    \A i, j, k \in 1..Len(log) :
        (i < j /\ j < k /\ log[i].node = log[k].node /\ log[i].pass = log[k].pass
            /\ log[j].pass = log[i].pass) => log[j].node = log[i].node

\* C14: on the (finite, acyclic) tree, a $dispatch, $broadcast or $emit whose
\* listeners register no listener terminates: every step of the traversal
\* ends the call or decreases a non-negative bound on the steps that are
\* left; each pass comes to a node at most once and invokes no listener of a
\* node twice.
C14_TraversalTerminates ==
    [][(pc \in {"dispatch", "broadcast"} /\ NoneRegistered') =>
          /\ Measure' < Measure
          /\ Measure' >= 0
          /\ pc' = "done" <=> Measure' = 0
          /\ OncePerPass'
          /\ VisitedOnce']_vars

\* C14's case: an $emit on node 2 has returned after it invoked the listeners
\* of node 2, of the root and of node 4
C14_Witness ==
    /\ pc = "done"
    /\ last.op = "emit"
    /\ last.node = 2
    /\ NoneRegistered
    /\ Len(log) = 3
    /\ log[1].node = 2
    /\ log[2].node = 1
    /\ log[3].node = 4

\* node n has no registry, no entry for the event of the running call, or an
\* empty list for it
Transparent(n) ==
    \/ ~_events[n].obj
    \/ last.event \notin DOMAIN _events[n].tab
    \/ _events[n].tab[last.event] = <<>>

\* the nodes of ns with the transparent ones left out
Listening(ns) == SelectSeq(ns, LAMBDA n : ~Transparent(n))

\* C15: nodes with no registry, no entry for the event or an empty list do
\* not make a traversal raise, and a $dispatch or $broadcast in which no
\* listener returns truthy (and none changes a registry) invokes the
\* listeners of the other nodes on the path, or in the subtree, exactly as
\* if the transparent nodes were not there.
C15_TransparentNodes ==
    (last.op \in {"dispatch", "broadcast"} /\ ~dirty) =>
        /\ error = "none"
        /\ (pc = "done" /\ NoTruthy(log)) =>
               log = Expected(Listening(IF last.op = "dispatch"
                                        THEN PathUp(last.node)
                                        ELSE Descendants(last.node)),
                              last.event, last.arg,
                              IF last.op = "dispatch" THEN "up" ELSE "down")

\* C15's case: a $dispatch from node 4, which has no registry, went past
\* node 2, whose list is empty, and invoked the listener of the root
C15_Witness ==
    /\ pc = "done"
    /\ last.op = "dispatch"
    /\ last.node = 4
    /\ ~dirty
    /\ error = "none"
    /\ ~_events[4].obj
    /\ HasList(2, last.event)
    /\ ListOf(2, last.event) = <<>>
    /\ Len(log) = 1
    /\ log[1].node = 1
    /\ ~log[1].ret

\* the list listeners with every entry equal to eventListener left out
Without(listeners, eventListener) ==
    SelectSeq(listeners, LAMBDA l : l # eventListener)

\* C16: $off(E, L) on a node whose list for E contains L removes exactly that
\* entry: afterwards L is not in the list, the list is one shorter, and the
\* other listeners are all there in their previous order.
C16_OffRemovesExactlyOne ==
    (pc = "done" /\ last.op = "off" /\ last.arg \in Members(last.before)) =>
        /\ error = "none"
        /\ last.arg \notin Members(ListOf(last.node, last.event))
        /\ Len(ListOf(last.node, last.event)) = Len(last.before) - 1
        /\ ListOf(last.node, last.event) = Without(last.before, last.arg)

\* C16's case: $off has removed the middle one of three listeners
C16_Witness ==
    /\ pc = "done"
    /\ last.op = "off"
    /\ last.arg = "f2"
    /\ last.before = <<"f1", "f2", "f3">>
    /\ ListOf(last.node, last.event) = <<"f1", "f3">>
    /\ error = "none"

\* the running call is $off(E, L) on node N and the call before it was a
\* valid $on(E, L) on N, made when N's list for E did not hold L
OffAfterOn ==
    /\ pc = "done"
    /\ last.op = "off"
    /\ prev.op = "on"
    /\ prev.node = last.node
    /\ prev.event = last.event
    /\ prev.arg = last.arg
    /\ ~OnThrows(prev.event, prev.arg)
    /\ prev.arg \notin Members(prev.before)

\* C17: $on(E, L) on a node whose list for E does not hold L, followed at
\* once by $off(E, L) on that node, gives back the sequence of listeners the
\* node had for E before the two calls (an empty list and no list are the
\* same sequence of listeners).
C17_OnOffRoundTrip ==
    OffAfterOn =>
        /\ error = "none"
        /\ last.before = Append(prev.before, last.arg)
        /\ ListOf(last.node, last.event) = prev.before

\* C17's case: f3 was added to a list of two listeners and removed again
C17_Witness ==
    /\ OffAfterOn
    /\ prev.before = <<"f1", "f2">>
    /\ last.arg = "f3"
    /\ ListOf(last.node, last.event) = <<"f1", "f2">>

\* the downward pass of the running $emit has begun
DownBegun ==
    pc = "broadcast" \/ \E k \in 1..Len(log) : log[k].pass = "down"

\* the upward pass is over: a listener stopped it, or it has gone past the
\* root and (its listeners leaving the registries alone) has invoked every
\* listener of the path
UpCompleted ==
    /\ cur = NoNode
    /\ OnlyLastTruthy(PassOf(log, "up"))
    /\ (~dirty /\ NoTruthy(PassOf(log, "up"))) =>
           PassOf(log, "up") =
               Expected(PathUp(last.node), last.event, last.arg, "up")

\* C18: in an $emit the upward pass is over (past the root, or stopped by a
\* truthy result) before the downward pass begins: every invocation on the
\* path to the root comes before every invocation on a descendant.
C18_EmitUpBeforeDown ==
    last.op = "emit" =>
        /\ \A j, k \in 1..Len(log) :
               (j < k /\ log[j].pass = "down") => log[k].pass = "down"
        /\ \A k \in 1..Len(log) :
               IF log[k].pass = "up"
               THEN log[k].node \in Members(PathUp(last.node))
               ELSE log[k].node \in Members(Descendants(last.node))
        /\ (DownBegun /\ error = "none") => UpCompleted

\* C18's case: an $emit on node 2 invoked the two listeners of the root and
\* then the listener of node 4
C18_Witness ==
    /\ pc = "done"
    /\ last.op = "emit"
    /\ last.node = 2
    /\ ~dirty
    /\ Len(log) = 3
    /\ log[1].node = 1 /\ log[1].pass = "up"
    /\ log[2].node = 1 /\ log[2].pass = "up"
    /\ log[3].node = 4 /\ log[3].pass = "down"

\* the step belongs to a traversal: $dispatch, $broadcast or $emit is called,
\* or the running one moves on
IsTraversalStep ==
    \/ pc \in {"dispatch", "broadcast"}
    \/ pc = "idle" /\ last'.op \in {"dispatch", "broadcast", "emit"}

\* C19: propagation alone changes no subscription: every step of a traversal
\* whose listeners have not called $on or $off leaves every registry (its
\* event keys and the order of its lists) and every _parent and _children
\* link as it was, whether a listener stops the propagation or not.
C19_PropagationKeepsRegistries ==
    [][(IsTraversalStep /\ ~dirty') =>
          /\ _events' = _events
          /\ _parent' = _parent
          /\ _children' = _children]_vars

\* C19's case: a $broadcast from the root was stopped by the second listener
\* of node 2; the lists of node 2 and of node 3 are as they were
C19_Witness ==
    /\ pc = "done"
    /\ last.op = "broadcast"
    /\ last.node = 1
    /\ ~dirty
    /\ Len(log) = 2
    /\ log[1].node = 2 /\ ~log[1].ret
    /\ log[2].node = 2 /\ log[2].ret
    /\ ListOf(2, last.event) = <<"f1", "f2">>
    /\ ListOf(3, last.event) = <<"f1">>

====
